---- MODULE Spec2Model ----
(***************************************************************************)
(* FlossGattServer (floss/pandora/floss/gatt_server.py): the GATT          *)
(* attribute database of the PTS fixture and the dispatch of read, write,  *)
(* prepared-write and execute-write requests against it.                   *)
(*                                                                         *)
(* Attribute values are Python lists.  __set_pts_attributes_value stores   *)
(* the class-level lists SHORT_TEST_VALUE, LONG_TEST_VALUE,                *)
(* INDICATION_VALUE and LONG_TEST_VALUE_512 themselves (no copy) in the    *)
(* attributes, and generic_write assigns to a slice of the list in place,  *)
(* so a value is modelled as a reference into a heap of list objects.      *)
(* An attribute nobody initialised keeps value None.                       *)
(***************************************************************************)
EXTENDS Integers, Sequences, FiniteSets, TLC

VARIABLES
    server_id,       \* self.server_id
    mtu_value,       \* self.mtu_value
    gatt_services,   \* self.gatt_services: per service, the value reference of each node
    heap,            \* contents of the list objects the value references point to
    pts_set_values,  \* self.pts_set_values
    write_requests,  \* self.write_requests (deque of prepared writes)
    add_service_calls, \* AddService calls the stack has not answered yet
    lastOp,          \* the callback that is running, with its arguments
    sent,            \* the SendResponse calls made by the callback that is running
    scenario         \* which requests the peers make (fixed in Init)

vars == <<server_id, mtu_value, gatt_services, heap, pts_set_values,
          write_requests, add_service_calls, lastOp, sent, scenario>>

-----------------------------------------------------------------------------
(* Bounds of the model *)

\* LONG_TEST_VALUE is 48 bytes in the source; the model keeps its shape
\* (longer than SHORT_TEST_VALUE) at a length TLC can enumerate.
LongLen == 3
\* LONG_TEST_VALUE_512 is 512 bytes in the source, scaled the same way.
Long512Len == 4
\* Largest number of prepared writes the environment queues.
MaxQueue == 2
\* Largest number of OnServiceAdded callbacks the environment delivers.
MaxServices == 2
\* Longest attribute value the environment lets a write produce.
MaxValueLen == 5

\* len(SHORT_TEST_VALUE)
ShortLen == 2

-----------------------------------------------------------------------------
(* GATT status codes (floss_enums.GattStatus) *)

SUCCESS == "SUCCESS"
INVALID_OFFSET == "INVALID_OFFSET"
INVALID_ATTRLEN == "INVALID_ATTRLEN"
NOT_FOUND == "NOT_FOUND"
READ_NOT_PERMIT == "READ_NOT_PERMIT"
WRITE_NOT_PERMIT == "WRITE_NOT_PERMIT"
INSUF_AUTHORIZATION == "INSUF_AUTHORIZATION"
INTERNAL_ERROR == "INTERNAL_ERROR"

\* Python None, for server_id and for attribute values.
None == "None"

-----------------------------------------------------------------------------
(* UUIDs: uuid16_to_uuid128(x) is the upper-cased 128-bit form of the      *)
(* 16-bit value x, and create_gatt_service upper-cases the UUID it gets    *)
(* back from the stack; both sides are named here by the upper-cased       *)
(* 16-bit part.                                                            *)

SERVICE_ATTR_UUID == "7777"
SERVER_CHANGED_CHAR_UUID == "2A05"
SERVER_SUP_FEAT_UUID == "2B3A"
CLIENT_SUP_FEAT_UUID == "2B29"
DATABASE_HASH_UUID == "2B2A"
LONG_CHAR_UUID == "B000"
DESCRIPTOR_UUID == "B001"
KEY_SIZE_CHAR_UUID == "B002"
UNAUTHORIZED_CHAR_UUID == "B003"
AUTHENTICATION_CHAR_UUID == "B004"
INVALID_FOR_LE_UUID == "B005"
INVALID_FOR_BR_EDR_UUID == "B006"
NO_READ_CHAR_UUID == "B007"
NO_WRITE_CHAR_UUID == "B008"
SHORT_CHAR_UUID == "B009"
WRITE_NO_RESPONSE_CHAR_UUID == "B00A"
NOTIFY_CHAR_UUID == "B00B"
AUTHENTICATE_SHORT_CHAR_UUID == "B00C"
CCC_DESCRIPTOR_UUID == "2902"
LONG_CHAR_512_UUID == "B00D"
MITM_SHORT_CHAR_UUID == "B00E"

-----------------------------------------------------------------------------
(* The class-level value lists.  Each is one list object; the heap maps    *)
(* the object's name to its current contents.                              *)

Repeat(b, n) == [i \in 1..n |-> b]

SHORT_TEST_VALUE == "SHORT_TEST_VALUE"
LONG_TEST_VALUE == "LONG_TEST_VALUE"
LONG_TEST_VALUE_512 == "LONG_TEST_VALUE_512"
INDICATION_VALUE == "INDICATION_VALUE"

Objects == {SHORT_TEST_VALUE, LONG_TEST_VALUE, LONG_TEST_VALUE_512, INDICATION_VALUE}

InitialHeap ==
    [o \in Objects |->
        CASE o = SHORT_TEST_VALUE -> Repeat(7, ShortLen)
          [] o = LONG_TEST_VALUE -> Repeat(7, LongLen)
          [] o = LONG_TEST_VALUE_512 -> Repeat(7, Long512Len)
          [] o = INDICATION_VALUE -> <<2, 0>>]

-----------------------------------------------------------------------------
(* The attribute tree built by __define_services, flattened in the order   *)
(* get_attribute_from_handle and update_attribute_value walk it: the       *)
(* service, then each characteristic followed by its descriptors.          *)

Node(k, id, u) == [kind |-> k, instance_id |-> id, uuid |-> u]

Fixture ==
    << Node("service", 0, SERVICE_ATTR_UUID),
       Node("characteristic", 1, SERVER_CHANGED_CHAR_UUID),
       Node("descriptor", 2, CCC_DESCRIPTOR_UUID),
       Node("characteristic", 3, SERVER_SUP_FEAT_UUID),
       Node("characteristic", 4, CLIENT_SUP_FEAT_UUID),
       Node("characteristic", 5, DATABASE_HASH_UUID),
       Node("characteristic", 5, DATABASE_HASH_UUID),
       Node("characteristic", 6, LONG_CHAR_UUID),
       Node("descriptor", 7, DESCRIPTOR_UUID),
       Node("characteristic", 8, KEY_SIZE_CHAR_UUID),
       Node("characteristic", 9, UNAUTHORIZED_CHAR_UUID),
       Node("characteristic", 10, AUTHENTICATION_CHAR_UUID),
       Node("characteristic", 11, INVALID_FOR_LE_UUID),
       Node("characteristic", 12, INVALID_FOR_BR_EDR_UUID),
       Node("characteristic", 13, NO_READ_CHAR_UUID),
       Node("characteristic", 14, NO_WRITE_CHAR_UUID),
       Node("characteristic", 15, SHORT_CHAR_UUID),
       Node("characteristic", 16, WRITE_NO_RESPONSE_CHAR_UUID),
       Node("characteristic", 17, NOTIFY_CHAR_UUID),
       Node("descriptor", 18, CCC_DESCRIPTOR_UUID),
       Node("characteristic", 19, AUTHENTICATE_SHORT_CHAR_UUID),
       Node("characteristic", 20, LONG_CHAR_512_UUID),
       Node("characteristic", 21, MITM_SHORT_CHAR_UUID) >>

NodeIds == 1..Len(Fixture)

\* create_gatt_service: the service dictionary the stack hands back has no
\* 'value' key, so every node is created with value None.
create_gatt_service == [i \in NodeIds |-> None]

-----------------------------------------------------------------------------
(* Python list operations *)

Min(a, b) == IF a < b THEN a ELSE b
Max(a, b) == IF a > b THEN a ELSE b

\* A slice bound i of a list of length n, as Python normalises it.
PyIndex(i, n) == IF i < 0 THEN Max(n + i, 0) ELSE Min(i, n)

\* s[i:], for the read path.
PySliceFrom(s, i) == SubSeq(s, PyIndex(i, Len(s)) + 1, Len(s))

\* s[i:j] = v
PySetSlice(s, i, j, v) ==
    LET n == Len(s)
        a == PyIndex(i, n)
        b == Max(PyIndex(j, n), a)
    IN  SubSeq(s, 1, a) \o v \o SubSeq(s, b + 1, n)

-----------------------------------------------------------------------------
(* Attribute store *)

\* A position in self.gatt_services: <<service index, node index>>.
NoAttribute == <<0, 0>>

\* The least element of a non-empty set of numbers.
Least(S) == CHOOSE x \in S : \A y \in S : x <= y

\* The first position, in the order the loops walk self.gatt_services (the
\* services in order and, within one, the flattened tree), among the nodes
\* given.  Every service in the list is built from the same tree, so the
\* first service with such a node is the first service.
FirstOf(services, nodes) ==
    IF services = <<>> \/ nodes = {} THEN NoAttribute
    ELSE <<1, Least(nodes)>>

\* Variant: when the loops find nothing, the node they visited last is returned.
get_attribute_from_handle_LastVisited(services, handle) ==
    IF services = <<>> THEN NoAttribute
    ELSE IF \E i \in NodeIds : Fixture[i].instance_id = handle
    THEN FirstOf(services, {i \in NodeIds : Fixture[i].instance_id = handle})
    ELSE <<1, Len(Fixture)>>

get_attribute_from_handle(services, handle) ==
    FirstOf(services, {i \in NodeIds : Fixture[i].instance_id = handle})

get_uuid_from_handle(services, handle) ==
    LET attribute == get_attribute_from_handle(services, handle)
    IN  IF attribute = NoAttribute THEN "" ELSE Fixture[attribute[2]].uuid

\* The value reference of the attribute at position p.
ValueRef(services, p) == services[p[1]][p[2]]

\* Variant: the loops do not return at the first match.
update_attribute_value_EveryMatch(services, uuid, ref) ==
    [s \in 1..Len(services) |->
        [i \in NodeIds |-> IF Fixture[i].uuid = uuid THEN ref ELSE services[s][i]]]

update_attribute_value(services, uuid, ref) ==
    LET p == FirstOf(services, {i \in NodeIds : Fixture[i].uuid = uuid})
    IN  IF p = NoAttribute THEN services
        ELSE [services EXCEPT ![p[1]][p[2]] = ref]

-----------------------------------------------------------------------------
(* Permission checker *)

\* Variant: the final else branch falls through to the SUCCESS return.
check_permissions_UnknownAllowed(uuid) ==
    CASE uuid = UNAUTHORIZED_CHAR_UUID -> INSUF_AUTHORIZATION
      [] uuid = INVALID_FOR_LE_UUID -> INTERNAL_ERROR
      [] uuid = INVALID_FOR_BR_EDR_UUID -> INTERNAL_ERROR
      [] uuid = NO_READ_CHAR_UUID -> READ_NOT_PERMIT
      [] uuid = NO_WRITE_CHAR_UUID -> WRITE_NOT_PERMIT
      [] uuid = None -> NOT_FOUND
      [] OTHER -> SUCCESS

\* Variant: the no_read_char branch falls through to the SUCCESS return.
check_permissions_NoReadAllowed(uuid) ==
    CASE uuid = LONG_CHAR_UUID -> SUCCESS
      [] uuid = DESCRIPTOR_UUID -> SUCCESS
      [] uuid = UNAUTHORIZED_CHAR_UUID -> INSUF_AUTHORIZATION
      [] uuid = AUTHENTICATION_CHAR_UUID -> SUCCESS
      [] uuid = INVALID_FOR_LE_UUID -> INTERNAL_ERROR
      [] uuid = INVALID_FOR_BR_EDR_UUID -> INTERNAL_ERROR
      [] uuid = NO_READ_CHAR_UUID -> SUCCESS
      [] uuid = NO_WRITE_CHAR_UUID -> WRITE_NOT_PERMIT
      [] uuid = SHORT_CHAR_UUID -> SUCCESS
      [] uuid = WRITE_NO_RESPONSE_CHAR_UUID -> SUCCESS
      [] uuid = AUTHENTICATE_SHORT_CHAR_UUID -> SUCCESS
      [] uuid = CCC_DESCRIPTOR_UUID -> SUCCESS
      [] uuid = LONG_CHAR_512_UUID -> SUCCESS
      [] uuid = MITM_SHORT_CHAR_UUID -> SUCCESS
      [] OTHER -> NOT_FOUND

check_permissions(uuid) ==
    CASE uuid = LONG_CHAR_UUID -> SUCCESS
      [] uuid = DESCRIPTOR_UUID -> SUCCESS
      [] uuid = UNAUTHORIZED_CHAR_UUID -> INSUF_AUTHORIZATION
      [] uuid = AUTHENTICATION_CHAR_UUID -> SUCCESS
      [] uuid = INVALID_FOR_LE_UUID -> INTERNAL_ERROR
      [] uuid = INVALID_FOR_BR_EDR_UUID -> INTERNAL_ERROR
      [] uuid = NO_READ_CHAR_UUID -> READ_NOT_PERMIT
      [] uuid = NO_WRITE_CHAR_UUID -> WRITE_NOT_PERMIT
      [] uuid = SHORT_CHAR_UUID -> SUCCESS
      [] uuid = WRITE_NO_RESPONSE_CHAR_UUID -> SUCCESS
      [] uuid = AUTHENTICATE_SHORT_CHAR_UUID -> SUCCESS
      [] uuid = CCC_DESCRIPTOR_UUID -> SUCCESS
      [] uuid = LONG_CHAR_512_UUID -> SUCCESS
      [] uuid = MITM_SHORT_CHAR_UUID -> SUCCESS
      [] OTHER -> NOT_FOUND

-----------------------------------------------------------------------------
(* Generic read/write engine.  A result records whether the Python code    *)
(* raised (len(None) is a TypeError, None.uuid an AttributeError); a       *)
(* result that raised has no status and no value.                          *)

Result(r, st, v, svcs, hp) ==
    [raised |-> r, status |-> st, value |-> v, services |-> svcs, heap |-> hp]

\* attribute.value, as a reference; None when there is no attribute.
RefOf(services, attribute) ==
    IF attribute = NoAttribute THEN None ELSE ValueRef(services, attribute)

\* The list a value reference points to; [] stands in where the code has
\* no list (callers check for None before they use it).
Contents(hp, ref) == IF ref = None THEN <<>> ELSE hp[ref]

\* Lines 653-655: the list object is changed in place and stored again
\* under the attribute's UUID.
StoreValue(services, hp, attribute, ref, new_value) ==
    Result(FALSE, SUCCESS, new_value,
           update_attribute_value(services, Fixture[attribute[2]].uuid, ref),
           [hp EXCEPT ![ref] = new_value])

\* Lines 645-655 of generic_write, given the attribute found for the
\* handle, its value reference and the list it points to.
WriteValue(services, hp, offset, length, attribute, ref, attr_value, value) ==
    IF attribute /= NoAttribute /\ ref = None
    THEN \* len(None): TypeError
         Result(TRUE, "", <<>>, services, hp)
    ELSE IF Len(attr_value) < offset
    THEN Result(FALSE, INVALID_OFFSET, <<>>, services, hp)
    ELSE IF offset + length > Len(attr_value)
    THEN Result(FALSE, INVALID_ATTRLEN, <<>>, services, hp)
    ELSE IF attribute = NoAttribute
    THEN \* the slice of the local [] is assigned, then attribute.uuid
         \* of None: AttributeError
         Result(TRUE, "", <<>>, services, hp)
    ELSE StoreValue(services, hp, attribute, ref,
                    PySetSlice(attr_value, offset, offset + length, value))

\* Lines 642-643: attr_value = attribute.value if attribute is not None else []
WriteAttribute(services, hp, offset, length, attribute, ref, value) ==
    WriteValue(services, hp, offset, length, attribute, ref, Contents(hp, ref), value)

WriteFound(services, hp, offset, length, attribute, value) ==
    WriteAttribute(services, hp, offset, length, attribute, RefOf(services, attribute),
                   value)

generic_write(services, hp, offset, length, handle, value) ==
    WriteFound(services, hp, offset, length, get_attribute_from_handle(services, handle),
               value)

\* Variant: a read that takes the bytes it returns out of the stored list.
ReadValue_Consumes(services, hp, offset, attribute, ref, attr_value) ==
    IF offset < 0
    THEN Result(FALSE, INVALID_OFFSET, <<>>, services, hp)
    ELSE IF attribute /= NoAttribute /\ ref = None
    THEN Result(TRUE, "", <<>>, services, hp)
    ELSE IF offset > Len(attr_value)
    THEN Result(FALSE, INVALID_OFFSET, <<>>, services, hp)
    ELSE Result(FALSE, SUCCESS, PySliceFrom(attr_value, offset), services,
                IF ref = None THEN hp
                ELSE [hp EXCEPT ![ref] = SubSeq(attr_value, 1, offset)])

\* Lines 669-673 of generic_read, given the attribute and its value.
ReadValue(services, hp, offset, attribute, ref, attr_value) ==
    IF offset < 0
    THEN Result(FALSE, INVALID_OFFSET, <<>>, services, hp)
    ELSE IF attribute /= NoAttribute /\ ref = None
    THEN \* len(None): TypeError
         Result(TRUE, "", <<>>, services, hp)
    ELSE IF offset > Len(attr_value)
    THEN Result(FALSE, INVALID_OFFSET, <<>>, services, hp)
    ELSE Result(FALSE, SUCCESS, PySliceFrom(attr_value, offset), services, hp)

\* get_attribute_value_from_handle, given the attribute: [] if not found.
ReadAttribute(services, hp, offset, attribute, ref) ==
    ReadValue(services, hp, offset, attribute, ref, Contents(hp, ref))

ReadFound(services, hp, offset, attribute) ==
    ReadAttribute(services, hp, offset, attribute, RefOf(services, attribute))

generic_read(services, hp, offset, handle) ==
    ReadFound(services, hp, offset, get_attribute_from_handle(services, handle))

-----------------------------------------------------------------------------
(* Request dispatcher.  Each operator is one callback body: what it leaves *)
(* in the store and the queue, the SendResponse calls it makes, and        *)
(* whether it raised before reaching its end.                              *)

\* self.proxy().SendResponse(self.server_id, addr, trans_id, status, offset, value)
SendResponse(sid, addr, trans_id, status, offset, value) ==
    [server_id |-> sid, addr |-> addr, trans_id |-> trans_id,
     status |-> status, offset |-> offset, value |-> value]

Outcome(r, st, svcs, hp, q, rsp) ==
    [raised |-> r, status |-> st, services |-> svcs, heap |-> hp,
     queue |-> q, sent |-> rsp]

\* The status local of on_execute_write before the loop assigns it.
Unbound == "UNBOUND"

\* Line 760, after generic_read returned r (or raised).
ReadResponse(r, services, hp, q, sid, addr, trans_id, offset) ==
    IF r.raised
    THEN Outcome(TRUE, "", services, hp, q, <<>>)
    ELSE Outcome(FALSE, r.status, r.services, r.heap, q,
                 <<SendResponse(sid, addr, trans_id, r.status, offset, r.value)>>)

\* Variant: a read takes a write-only refusal as permission to read.
ReadChecked_WriteDenialAllowsRead(status, services, hp, q, sid, addr, trans_id, offset, is_long, handle) ==
    IF status \in {SUCCESS, WRITE_NOT_PERMIT}
    THEN ReadResponse(generic_read(services, hp, IF ~is_long THEN 0 ELSE offset, handle),
                      services, hp, q, sid, addr, trans_id,
                      IF ~is_long THEN 0 ELSE offset)
    ELSE Outcome(FALSE, status, services, hp, q,
                 <<SendResponse(sid, addr, trans_id, status, offset, <<>>)>>)

\* Lines 754-760, given the status check_permissions returned.
ReadChecked(status, services, hp, q, sid, addr, trans_id, offset, is_long, handle) ==
    IF status = SUCCESS
    THEN ReadResponse(generic_read(services, hp, IF ~is_long THEN 0 ELSE offset, handle),
                      services, hp, q, sid, addr, trans_id,
                      IF ~is_long THEN 0 ELSE offset)
    ELSE Outcome(FALSE, status, services, hp, q,
                 <<SendResponse(sid, addr, trans_id, status, offset, <<>>)>>)

on_attr_read(services, hp, q, sid, addr, trans_id, offset, is_long, handle) ==
    ReadChecked(check_permissions(get_uuid_from_handle(services, handle)),
                services, hp, q, sid, addr, trans_id, offset, is_long, handle)

\* The tuple on_attr_write appends to self.write_requests.
Request(addr, trans_id, offset, length, is_prep, need_rsp, handle, value) ==
    [addr |-> addr, trans_id |-> trans_id, offset |-> offset, length |-> length,
     is_prep |-> is_prep, need_rsp |-> need_rsp, handle |-> handle, value |-> value]

\* Lines 787-790.
Respond(need_rsp, sid, addr, trans_id, status, offset, value) ==
    IF need_rsp THEN <<SendResponse(sid, addr, trans_id, status, offset, value)>>
    ELSE <<>>

\* Lines 783-790, after generic_write returned r (or raised).
WriteResponse(r, q, sid, addr, trans_id, offset, need_rsp) ==
    IF r.raised
    THEN Outcome(TRUE, "", r.services, r.heap, q, <<>>)
    ELSE Outcome(FALSE, r.status, r.services, r.heap, q,
                 Respond(need_rsp, sid, addr, trans_id, r.status, offset, r.value))

\* Variant: a prepared write is queued and also written at once.
WriteChecked_PrepWritesNow(status, services, hp, q, sid, addr, trans_id, offset, length, is_prep, need_rsp, handle, value) ==
    IF status = SUCCESS
    THEN WriteResponse(generic_write(services, hp, offset, length, handle, value),
                       IF is_prep
                       THEN Append(q, Request(addr, trans_id, offset, length, is_prep,
                                              need_rsp, handle, value))
                       ELSE q,
                       sid, addr, trans_id, offset, need_rsp)
    ELSE Outcome(FALSE, status, services, hp, q,
                 Respond(need_rsp, sid, addr, trans_id, status, offset, <<>>))

\* Variant: a prepared write is checked against the current value before
\* it is queued.
WriteChecked_ValidatesWhenQueued(status, services, hp, q, sid, addr, trans_id, offset, length, is_prep, need_rsp, handle, value) ==
    IF status = SUCCESS
    THEN IF is_prep
         THEN IF Len(Contents(hp, RefOf(services,
                                        get_attribute_from_handle(services, handle))))
                     < offset
              THEN Outcome(FALSE, INVALID_OFFSET, services, hp, q,
                           Respond(need_rsp, sid, addr, trans_id, INVALID_OFFSET,
                                   offset, <<>>))
              ELSE IF offset + length
                          > Len(Contents(hp, RefOf(services,
                                 get_attribute_from_handle(services, handle))))
              THEN Outcome(FALSE, INVALID_ATTRLEN, services, hp, q,
                           Respond(need_rsp, sid, addr, trans_id, INVALID_ATTRLEN,
                                   offset, <<>>))
              ELSE Outcome(FALSE, status, services, hp,
                           Append(q, Request(addr, trans_id, offset, length, is_prep,
                                             need_rsp, handle, value)),
                           Respond(need_rsp, sid, addr, trans_id, status, offset, value))
         ELSE WriteResponse(generic_write(services, hp, offset, length, handle, value),
                            q, sid, addr, trans_id, offset, need_rsp)
    ELSE Outcome(FALSE, status, services, hp, q,
                 Respond(need_rsp, sid, addr, trans_id, status, offset, <<>>))

\* Variant: a prepared write goes to the head of the queue.
WriteChecked_NewestFirst(status, services, hp, q, sid, addr, trans_id, offset, length, is_prep, need_rsp, handle, value) ==
    IF status = SUCCESS
    THEN IF is_prep
         THEN Outcome(FALSE, status, services, hp,
                      <<Request(addr, trans_id, offset, length, is_prep,
                                need_rsp, handle, value)>> \o q,
                      Respond(need_rsp, sid, addr, trans_id, status, offset, value))
         ELSE WriteResponse(generic_write(services, hp, offset, length, handle, value),
                            q, sid, addr, trans_id, offset, need_rsp)
    ELSE Outcome(FALSE, status, services, hp, q,
                 Respond(need_rsp, sid, addr, trans_id, status, offset, <<>>))

\* Lines 778-790, given the status check_permissions returned.
WriteChecked(status, services, hp, q, sid, addr, trans_id, offset, length, is_prep, need_rsp, handle, value) ==
    IF status = SUCCESS
    THEN IF is_prep
         THEN Outcome(FALSE, status, services, hp,
                      Append(q, Request(addr, trans_id, offset, length, is_prep,
                                        need_rsp, handle, value)),
                      Respond(need_rsp, sid, addr, trans_id, status, offset, value))
         ELSE WriteResponse(generic_write(services, hp, offset, length, handle, value),
                            q, sid, addr, trans_id, offset, need_rsp)
    ELSE Outcome(FALSE, status, services, hp, q,
                 Respond(need_rsp, sid, addr, trans_id, status, offset, <<>>))

\* Variant: a write is routed without asking check_permissions.
on_attr_write_Unchecked(services, hp, q, sid, addr, trans_id, offset, length, is_prep, need_rsp, handle, value) ==
    WriteChecked(SUCCESS, services, hp, q, sid, addr, trans_id, offset, length, is_prep,
                 need_rsp, handle, value)

on_attr_write(services, hp, q, sid, addr, trans_id, offset, length, is_prep, need_rsp, handle, value) ==
    WriteChecked(check_permissions(get_uuid_from_handle(services, handle)),
                 services, hp, q, sid, addr, trans_id, offset, length, is_prep,
                 need_rsp, handle, value)

\* The for loop of on_execute_write over the requests taken off the queue
\* (lines 1230-1234); status is the loop's status local on entry.
RECURSIVE ApplyRequests(_, _, _, _)
RECURSIVE AfterRequest(_, _)

AfterRequest(r, rest) ==
    IF r.raised \/ r.status /= SUCCESS THEN r
    ELSE ApplyRequests(r.services, r.heap, rest, r.status)

ApplyRequests(services, hp, reqs, status) ==
    IF reqs = <<>>
    THEN Result(FALSE, status, <<>>, services, hp)
    ELSE AfterRequest(generic_write(services, hp, Head(reqs).offset, Head(reqs).length,
                                    Head(reqs).handle, Head(reqs).value),
                      Tail(reqs))

\* Line 1236, after the loop ended with r (or a write in it raised).
ExecuteResponse(r, sid, addr, trans_id) ==
    IF r.raised
    THEN Outcome(TRUE, "", r.services, r.heap, <<>>, <<>>)
    ELSE IF r.status = Unbound
    THEN \* no request ran: status is read unassigned, UnboundLocalError
         Outcome(TRUE, Unbound, r.services, r.heap, <<>>, <<>>)
    ELSE Outcome(FALSE, r.status, r.services, r.heap, <<>>,
                 <<SendResponse(sid, addr, trans_id, r.status, 0, <<>>)>>)

\* Variant: a commit that stops at a failing entry leaves that entry and
\* the ones behind it queued.
on_execute_write_FailedCommitKeepsRest(services, hp, q, sid, addr, trans_id, exec_write) ==
    IF ~exec_write
    THEN Outcome(FALSE, SUCCESS, services, hp, <<>>,
                 <<SendResponse(sid, addr, trans_id, SUCCESS, 0, <<>>)>>)
    ELSE LET out == ExecuteResponse(ApplyRequests(services, hp, q, Unbound),
                                    sid, addr, trans_id)
         IN  [out EXCEPT !.queue = IF out.status = SUCCESS THEN <<>>
                               ELSE SubSeq(q, 2, Len(q))]

\* Variant: an execute-write touches only the entries its peer queued.
on_execute_write_OwnEntriesOnly(services, hp, q, sid, addr, trans_id, exec_write) ==
    IF ~exec_write
    THEN Outcome(FALSE, SUCCESS, services, hp,
                 SelectSeq(q, LAMBDA request : request.addr /= addr),
                 <<SendResponse(sid, addr, trans_id, SUCCESS, 0, <<>>)>>)
    ELSE ExecuteResponse(ApplyRequests(services, hp,
                                       SelectSeq(q, LAMBDA request : request.addr = addr),
                                       Unbound),
                         sid, addr, trans_id)

\* Variant: a cancel answers without clearing the queue.
on_execute_write_CancelKeepsQueue(services, hp, q, sid, addr, trans_id, exec_write) ==
    IF ~exec_write
    THEN Outcome(FALSE, SUCCESS, services, hp, q,
                 <<SendResponse(sid, addr, trans_id, SUCCESS, 0, <<>>)>>)
    ELSE ExecuteResponse(ApplyRequests(services, hp, q, Unbound), sid, addr, trans_id)

on_execute_write(services, hp, q, sid, addr, trans_id, exec_write) ==
    IF ~exec_write
    THEN Outcome(FALSE, SUCCESS, services, hp, <<>>,
                 <<SendResponse(sid, addr, trans_id, SUCCESS, 0, <<>>)>>)
    ELSE \* the queue is swapped for an empty deque before the loop runs
         ExecuteResponse(ApplyRequests(services, hp, q, Unbound), sid, addr, trans_id)

\* __set_pts_attributes_value: the update_attribute_value calls, in order.
PtsValues ==
    << <<SERVICE_ATTR_UUID, SHORT_TEST_VALUE>>,
       <<SERVER_CHANGED_CHAR_UUID, SHORT_TEST_VALUE>>,
       <<SERVER_SUP_FEAT_UUID, SHORT_TEST_VALUE>>,
       <<CLIENT_SUP_FEAT_UUID, SHORT_TEST_VALUE>>,
       <<DATABASE_HASH_UUID, SHORT_TEST_VALUE>>,
       <<LONG_CHAR_UUID, LONG_TEST_VALUE>>,
       <<DESCRIPTOR_UUID, LONG_TEST_VALUE>>,
       <<KEY_SIZE_CHAR_UUID, LONG_TEST_VALUE>>,
       <<UNAUTHORIZED_CHAR_UUID, LONG_TEST_VALUE>>,
       <<AUTHENTICATION_CHAR_UUID, LONG_TEST_VALUE>>,
       <<INVALID_FOR_LE_UUID, LONG_TEST_VALUE>>,
       <<INVALID_FOR_BR_EDR_UUID, LONG_TEST_VALUE>>,
       <<NO_READ_CHAR_UUID, LONG_TEST_VALUE>>,
       <<NO_WRITE_CHAR_UUID, LONG_TEST_VALUE>>,
       <<SHORT_CHAR_UUID, SHORT_TEST_VALUE>>,
       <<WRITE_NO_RESPONSE_CHAR_UUID, LONG_TEST_VALUE>>,
       <<NOTIFY_CHAR_UUID, SHORT_TEST_VALUE>>,
       <<AUTHENTICATE_SHORT_CHAR_UUID, SHORT_TEST_VALUE>>,
       <<CCC_DESCRIPTOR_UUID, INDICATION_VALUE>>,
       <<LONG_CHAR_512_UUID, LONG_TEST_VALUE_512>>,
       <<MITM_SHORT_CHAR_UUID, SHORT_TEST_VALUE>> >>

RECURSIVE UpdateAll(_, _)
UpdateAll(services, updates) ==
    IF updates = <<>> THEN services
    ELSE UpdateAll(update_attribute_value(services, Head(updates)[1], Head(updates)[2]),
                   Tail(updates))

set_pts_attributes_value(services, already_set) ==
    IF ~already_set THEN UpdateAll(services, PtsValues) ELSE services

-----------------------------------------------------------------------------
(* What the transport delivers.  The requests the peers make are drawn     *)
(* from small sets, one choice of sets per scenario: "dispatch" spreads    *)
(* single reads and writes over the handles of the tree, "queue" spreads   *)
(* prepared writes over offsets and values, "edge" sends writes with a     *)
(* negative offset, and prepared writes with offsets at and beyond the     *)
(* end, to two attributes that hold the same list.                         *)

ServerIds == {1}
Mtus == {23}
Statuses == {SUCCESS, INTERNAL_ERROR}

\* Number of services the stack is asked to add in a scenario.
ServiceCap == IF scenario = "dispatch" THEN MaxServices ELSE 1

\* <<addr, trans_id>> of a request
Peers == { <<"A", 1>>, <<"B", 2>> }

AllHandles == {Fixture[i].instance_id : i \in NodeIds} \cup {Len(Fixture)}

ReadHandles ==
    IF scenario = "dispatch" THEN AllHandles
    ELSE IF scenario = "queue" THEN {6, 18} ELSE {6, 7}
ReadOffsets == IF scenario = "dispatch" THEN {-1, 0, 1, LongLen + 1} ELSE {0}

\* Non-prepared writes: a permitted characteristic (6) and descriptor (7)
\* holding the long list, the second CCC descriptor (18), a denied
\* attribute (13), an attribute the table does not know (8), no attribute (22 up).
WriteHandles ==
    IF scenario = "dispatch" THEN {6, 7, 8, 13, 18, Len(Fixture)}
    ELSE IF scenario = "queue" THEN {6, 18} ELSE {6, 7}
WriteOffsets ==
    IF scenario = "dispatch" THEN {0, 1, LongLen, LongLen + 1}
    ELSE IF scenario = "queue" THEN {0} ELSE {-1, 0}
\* <<length, value>>
WritePayloads ==
    IF scenario = "dispatch"
    THEN { <<0, <<>> >>, <<1, <<1>> >>, <<2, <<1, 2>> >> }
    ELSE { <<1, <<1>> >> }
WriteNeedRsp == IF scenario = "edge" THEN {TRUE} ELSE BOOLEAN

PrepPeers == IF scenario = "queue" THEN Peers ELSE { <<"A", 1>> }
PrepHandles ==
    IF scenario = "dispatch" THEN {7, 13, Len(Fixture)}
    ELSE IF scenario = "queue" THEN {6, 13, 18} ELSE {6, 7}
PrepOffsets ==
    IF scenario = "dispatch" THEN {0}
    ELSE IF scenario = "queue" THEN {0, LongLen + 1} ELSE {-1, 0, LongLen, LongLen + 1}
PrepPayloads ==
    IF scenario = "queue"
    THEN { <<1, <<1>> >>, <<1, <<2>> >> }
    ELSE { <<1, <<1>> >> }
PrepNeedRsp == IF scenario = "dispatch" THEN BOOLEAN ELSE {TRUE}

-----------------------------------------------------------------------------
(* State *)

\* lastOp while no callback runs (control is with the GLib main loop), and
\* the shape of lastOp for a callback: the arguments it was called with,
\* the status local it ended with, whether it raised, and the contents of
\* the target attribute's value, the length of self.write_requests and
\* (for an execute-write) the addr of each of its entries when it was called.
Op(name) ==
    [op |-> name, addr |-> "", trans_id |-> 0, offset |-> 0, length |-> 0,
     is_prep |-> FALSE, need_rsp |-> FALSE, handle |-> 0, value |-> <<>>,
     is_long |-> FALSE, exec_write |-> FALSE, status |-> "", raised |-> FALSE,
     before |-> <<>>, queued |-> 0, peers |-> <<>>]

Idle == Op("idle")

\* Whether handle resolves to an attribute whose value is a list.
HasValue(services, handle) ==
    LET attribute == get_attribute_from_handle(services, handle)
    IN  attribute /= NoAttribute /\ ValueRef(services, attribute) /= None

\* The contents of the value of the attribute at handle, <<>> when there is
\* no such attribute or its value is None.
ValueAt(services, hp, handle) ==
    Contents(hp, RefOf(services, get_attribute_from_handle(services, handle)))

BaseInit ==
    /\ server_id = <<>>
    /\ mtu_value = -1
    /\ gatt_services = <<>>
    /\ heap = InitialHeap
    /\ pts_set_values = FALSE
    /\ write_requests = <<>>
    /\ add_service_calls = 0
    /\ lastOp = Idle
    /\ sent = <<>>

Init == BaseInit /\ scenario = "dispatch"

InitQueue == BaseInit /\ scenario = "queue"

InitEdge == BaseInit /\ scenario = "edge"

\* A callback is delivered when the main loop is idle; request callbacks
\* are delivered for a registered server.
Ready == lastOp = Idle

Registered == Ready /\ server_id /= <<>>

\* A request callback ran with outcome out; op is lastOp with its arguments.
Deliver(out, op) ==
    /\ \A o \in Objects : Len(out.heap[o]) <= MaxValueLen
    /\ Len(out.queue) <= MaxQueue
    /\ gatt_services' = out.services
    /\ heap' = out.heap
    /\ write_requests' = out.queue
    /\ sent' = out.sent
    /\ lastOp' = [op EXCEPT !.status = out.status, !.raised = out.raised]
    /\ UNCHANGED <<server_id, mtu_value, pts_set_values, add_service_calls, scenario>>

\* on_server_registered; __define_services ends in one AddService call.
on_server_registered ==
    /\ Ready
    /\ \E status \in Statuses, id \in ServerIds :
        /\ Len(gatt_services) + add_service_calls < ServiceCap
        /\ lastOp' = [Op("on_server_registered") EXCEPT !.status = status]
        /\ sent' = <<>>
        /\ IF status /= SUCCESS
           THEN UNCHANGED <<server_id, add_service_calls>>
           ELSE /\ server_id' = <<id>>
                /\ add_service_calls' = add_service_calls + 1
        /\ UNCHANGED <<mtu_value, gatt_services, heap, pts_set_values, write_requests,
                       scenario>>

on_server_connection_state ==
    /\ Registered
    /\ \E addr \in {"A"} :
        /\ lastOp' = [Op("on_server_connection_state") EXCEPT !.addr = addr]
        /\ sent' = <<>>
        /\ UNCHANGED <<server_id, mtu_value, gatt_services, heap, pts_set_values,
                       write_requests, add_service_calls, scenario>>

\* Variant: every added service sets the PTS values again, from fresh lists.
on_service_added_ResetsValues ==
    /\ Ready
    /\ \E status \in Statuses :
        /\ add_service_calls > 0
        /\ add_service_calls' = add_service_calls - 1
        /\ lastOp' = [Op("on_service_added") EXCEPT !.status = status]
        /\ sent' = <<>>
        /\ IF status /= SUCCESS
           THEN UNCHANGED <<gatt_services, heap, pts_set_values>>
           ELSE /\ gatt_services' =
                       set_pts_attributes_value(Append(gatt_services, create_gatt_service),
                                                FALSE)
                /\ heap' = InitialHeap
                /\ pts_set_values' = TRUE
        /\ UNCHANGED <<server_id, mtu_value, write_requests, scenario>>

on_service_added ==
    /\ Ready
    /\ \E status \in Statuses :
        /\ add_service_calls > 0
        /\ add_service_calls' = add_service_calls - 1
        /\ lastOp' = [Op("on_service_added") EXCEPT !.status = status]
        /\ sent' = <<>>
        /\ IF status /= SUCCESS
           THEN UNCHANGED <<gatt_services, pts_set_values>>
           ELSE /\ gatt_services' =
                       set_pts_attributes_value(Append(gatt_services, create_gatt_service),
                                                pts_set_values)
                /\ pts_set_values' = TRUE
        /\ UNCHANGED <<server_id, mtu_value, heap, write_requests, scenario>>

\* Variant: a removed service takes its attributes out of the store.
on_service_removed_DropsAttributes ==
    /\ Registered
    /\ \E status \in Statuses :
        /\ lastOp' = [Op("on_service_removed") EXCEPT !.status = status]
        /\ sent' = <<>>
        /\ gatt_services' = <<>>
        /\ UNCHANGED <<server_id, mtu_value, heap, pts_set_values,
                       write_requests, add_service_calls, scenario>>

on_service_removed ==
    /\ Registered
    /\ \E status \in Statuses :
        /\ lastOp' = [Op("on_service_removed") EXCEPT !.status = status]
        /\ sent' = <<>>
        /\ UNCHANGED <<server_id, mtu_value, gatt_services, heap, pts_set_values,
                       write_requests, add_service_calls, scenario>>

on_mtu_changed ==
    /\ Registered
    /\ \E addr \in {"A"}, mtu \in Mtus :
        /\ mtu_value' = mtu
        /\ lastOp' = [Op("on_mtu_changed") EXCEPT !.addr = addr]
        /\ sent' = <<>>
        /\ UNCHANGED <<server_id, gatt_services, heap, pts_set_values, write_requests,
                       add_service_calls, scenario>>

IsDescriptor(handle) ==
    \E i \in NodeIds : Fixture[i].instance_id = handle /\ Fixture[i].kind = "descriptor"

ReadRequest(name, handles) ==
    /\ Registered
    /\ \E peer \in Peers, offset \in ReadOffsets, is_long \in BOOLEAN, handle \in handles :
        Deliver(on_attr_read(gatt_services, heap, write_requests, server_id,
                             peer[1], peer[2], offset, is_long, handle),
                [Op(name) EXCEPT !.addr = peer[1], !.trans_id = peer[2],
                                 !.offset = offset, !.is_long = is_long,
                                 !.handle = handle,
                                 !.before = ValueAt(gatt_services, heap, handle)])

\* The stack delivers a request on a descriptor handle through the
\* descriptor callback and every other request through the characteristic one.
on_characteristic_read_request ==
    ReadRequest("on_characteristic_read_request",
                {h \in ReadHandles : ~IsDescriptor(h)})

on_descriptor_read_request ==
    ReadRequest("on_descriptor_read_request", {h \in ReadHandles : IsDescriptor(h)})

WriteRequest(name, is_prep, peers, handles, offsets, payloads, need_rsps) ==
    /\ Registered
    /\ \E peer \in peers, offset \in offsets, payload \in payloads, need_rsp \in need_rsps,
       handle \in handles :
        Deliver(on_attr_write(gatt_services, heap, write_requests, server_id,
                              peer[1], peer[2], offset, payload[1], is_prep, need_rsp,
                              handle, payload[2]),
                [Op(name) EXCEPT !.addr = peer[1], !.trans_id = peer[2],
                                 !.offset = offset, !.length = payload[1],
                                 !.is_prep = is_prep, !.need_rsp = need_rsp,
                                 !.handle = handle, !.value = payload[2],
                                 !.before = ValueAt(gatt_services, heap, handle),
                                 !.queued = Len(write_requests)])

on_characteristic_write_request ==
    \/ WriteRequest("on_characteristic_write_request", FALSE, Peers,
                    {h \in WriteHandles : ~IsDescriptor(h)},
                    WriteOffsets, WritePayloads, WriteNeedRsp)
    \/ WriteRequest("on_characteristic_write_request", TRUE, PrepPeers,
                    {h \in PrepHandles : ~IsDescriptor(h)},
                    PrepOffsets, PrepPayloads, PrepNeedRsp)

on_descriptor_write_request ==
    \/ WriteRequest("on_descriptor_write_request", FALSE, Peers,
                    {h \in WriteHandles : IsDescriptor(h)},
                    WriteOffsets, WritePayloads, WriteNeedRsp)
    \/ WriteRequest("on_descriptor_write_request", TRUE, PrepPeers,
                    {h \in PrepHandles : IsDescriptor(h)},
                    PrepOffsets, PrepPayloads, PrepNeedRsp)

on_execute_write_request ==
    /\ Registered
    /\ \E peer \in Peers, exec_write \in BOOLEAN :
        Deliver(on_execute_write(gatt_services, heap, write_requests, server_id,
                                 peer[1], peer[2], exec_write),
                [Op("on_execute_write") EXCEPT !.addr = peer[1], !.trans_id = peer[2],
                                               !.exec_write = exec_write,
                                               !.queued = Len(write_requests),
                                               !.peers = [i \in 1..Len(write_requests) |->
                                                              write_requests[i].addr]])

\* The callback returns (or its exception is dropped) and the main loop
\* is idle again.
callback_returns ==
    /\ lastOp /= Idle
    /\ lastOp' = Idle
    /\ sent' = <<>>
    /\ UNCHANGED <<server_id, mtu_value, gatt_services, heap, pts_set_values,
                   write_requests, add_service_calls, scenario>>

Next ==
    \/ on_server_registered
    \/ on_server_connection_state
    \/ on_service_added
    \/ on_service_removed
    \/ on_mtu_changed
    \/ on_characteristic_read_request
    \/ on_descriptor_read_request
    \/ on_characteristic_write_request
    \/ on_descriptor_write_request
    \/ on_execute_write_request
    \/ callback_returns

Spec == Init /\ [][Next]_vars

SpecQueue == InitQueue /\ [][Next]_vars

SpecEdge == InitEdge /\ [][Next]_vars

-----------------------------------------------------------------------------
(* Properties of the request dispatcher.  lastOp holds the callback that   *)
(* has just run and sent the SendResponse calls it made.                   *)

ReadCallbacks == {"on_characteristic_read_request", "on_descriptor_read_request"}
WriteCallbacks == {"on_characteristic_write_request", "on_descriptor_write_request"}

\* check_permissions of the attribute at the handle of lastOp.
Permitted ==
    check_permissions(get_uuid_from_handle(gatt_services, lastOp.handle)) = SUCCESS

\* A step in which a write callback, an execute-write commit and an
\* execute-write cancel runs.
WriteStep == lastOp = Idle /\ lastOp'.op \in WriteCallbacks
CommitStep == lastOp = Idle /\ lastOp'.op = "on_execute_write" /\ lastOp'.exec_write
CancelStep == lastOp = Idle /\ lastOp'.op = "on_execute_write" /\ ~lastOp'.exec_write

\* C1: every attribute read request, on any handle of the tree and at any
\* offset, long or not, is answered by exactly one SendResponse carrying the
\* request's address and trans_id, with an empty value unless the status is
\* SUCCESS.
C1_ReadAlwaysResponds ==
    lastOp.op \in ReadCallbacks =>
        /\ Len(sent) = 1
        /\ sent[1].addr = lastOp.addr
        /\ sent[1].trans_id = lastOp.trans_id
        /\ (sent[1].status /= SUCCESS => sent[1].value = <<>>)

\* C2: every execute-write request, commit or cancel, whatever the queue
\* holds (nothing included), is answered by exactly one SendResponse for
\* its address and trans_id with offset 0, an empty value and the final status.
C2_ExecuteAlwaysResponds ==
    lastOp.op = "on_execute_write" =>
        /\ ~lastOp.raised
        /\ Len(sent) = 1
        /\ sent[1].addr = lastOp.addr
        /\ sent[1].trans_id = lastOp.trans_id
        /\ sent[1].offset = 0
        /\ sent[1].value = <<>>
        /\ sent[1].status = lastOp.status

\* C3: a write request is answered by exactly one SendResponse when
\* need_rsp is true and by none when it is false, on any handle and for any
\* is_prep, offset and length; the store and the queue end up the same as
\* for the same request with the other need_rsp.
C3_ResponseIffNeedRsp ==
    [][WriteStep =>
        /\ lastOp'.need_rsp => /\ Len(sent') = 1
                               /\ sent'[1].addr = lastOp'.addr
                               /\ sent'[1].trans_id = lastOp'.trans_id
        /\ ~lastOp'.need_rsp => sent' = <<>>
        /\ LET other == on_attr_write(gatt_services, heap, write_requests, server_id,
                                      lastOp'.addr, lastOp'.trans_id, lastOp'.offset,
                                      lastOp'.length, lastOp'.is_prep,
                                      ~lastOp'.need_rsp, lastOp'.handle, lastOp'.value)
           IN  /\ gatt_services' = other.services
               /\ heap' = other.heap
               /\ Len(write_requests') = Len(other.queue)]_vars

\* C4: a commit applies the queued entries through generic_write in arrival
\* order and stops at the first entry whose write does not succeed; the
\* response carries the status the loop stopped with, the entries before
\* stay applied and the entries after are not applied.
C4_CommitStopsAtFirstFailure ==
    [][CommitStep /\ write_requests /= <<>> =>
        LET r == ApplyRequests(gatt_services, heap, write_requests, Unbound)
        IN  /\ ~r.raised
            /\ sent' = <<SendResponse(server_id, lastOp'.addr, lastOp'.trans_id,
                                      r.status, 0, <<>>)>>
            /\ gatt_services' = r.services
            /\ heap' = r.heap]_vars

\* Every write of the queue, applied in order, succeeds (none when the
\* queue is empty).
AllWritesSucceed ==
    LET r == ApplyRequests(gatt_services, heap, write_requests, SUCCESS)
    IN  ~r.raised /\ r.status = SUCCESS

\* C5: a commit in which every queued write succeeds, an empty queue
\* included, applies them all, answers SUCCESS and leaves the queue empty.
C5_CommitAllSucceed ==
    [][CommitStep /\ AllWritesSucceed =>
        /\ Len(sent') = 1
        /\ sent'[1].status = SUCCESS
        /\ write_requests' = <<>>
        /\ heap' = ApplyRequests(gatt_services, heap, write_requests, SUCCESS).heap]_vars

\* C6: a cancel empties the queue whatever it holds, changes no attribute
\* value and answers SUCCESS.
C6_CancelClearsQueue ==
    [][CancelStep =>
        /\ write_requests' = <<>>
        /\ heap' = heap
        /\ gatt_services' = gatt_services
        /\ ~lastOp'.raised
        /\ Len(sent') = 1
        /\ sent'[1].status = SUCCESS]_vars

\* A cancel has just run on a queue that held entries.
C6_Witness ==
    /\ lastOp.op = "on_execute_write"
    /\ ~lastOp.exec_write
    /\ lastOp.queued >= 1
    /\ write_requests = <<>>
    /\ Len(sent) = 1

\* C7: a prepared write to a handle that passes the permission check adds
\* exactly one entry, the request, at the tail of the queue and changes no
\* attribute value; a value changes only in a non-prepared write or in a commit.
C7_PreparedWriteOnlyQueues ==
    [][/\ WriteStep /\ lastOp'.is_prep
          /\ check_permissions(get_uuid_from_handle(gatt_services, lastOp'.handle))
                 = SUCCESS
          => /\ write_requests' =
                    Append(write_requests,
                           Request(lastOp'.addr, lastOp'.trans_id, lastOp'.offset,
                                   lastOp'.length, TRUE, lastOp'.need_rsp,
                                   lastOp'.handle, lastOp'.value))
             /\ heap' = heap
             /\ gatt_services' = gatt_services
       /\ heap' /= heap => \/ WriteStep /\ ~lastOp'.is_prep
                           \/ CommitStep]_vars

\* A prepared write has just been queued behind an earlier one.
C7_Witness ==
    /\ lastOp.op \in WriteCallbacks
    /\ lastOp.is_prep
    /\ lastOp.status = SUCCESS
    /\ lastOp.queued >= 1
    /\ Len(write_requests) = lastOp.queued + 1

\* C8: a non-prepared write that reaches generic_write with an offset
\* beyond the end of the current value (an absent value being empty) ends
\* with INVALID_OFFSET and an empty value, whatever its length, and leaves
\* the value as it was.
C8_OffsetBeyondEnd ==
    /\ lastOp.op \in WriteCallbacks /\ ~lastOp.is_prep /\ Permitted
    /\ lastOp.offset > Len(lastOp.before)
    => /\ ~lastOp.raised
       /\ lastOp.status = INVALID_OFFSET
       /\ lastOp.need_rsp => sent[1].status = INVALID_OFFSET /\ sent[1].value = <<>>
       /\ ValueAt(gatt_services, heap, lastOp.handle) = lastOp.before

\* C9: a non-prepared write with an offset inside the current value (an
\* absent value being empty) and offset + length beyond its end ends with
\* INVALID_ATTRLEN and an empty value and leaves the value as it was.
C9_LengthBeyondEnd ==
    /\ lastOp.op \in WriteCallbacks /\ ~lastOp.is_prep /\ Permitted
    /\ 0 <= lastOp.offset /\ lastOp.offset <= Len(lastOp.before)
    /\ lastOp.offset + lastOp.length > Len(lastOp.before)
    => /\ ~lastOp.raised
       /\ lastOp.status = INVALID_ATTRLEN
       /\ lastOp.need_rsp => sent[1].status = INVALID_ATTRLEN /\ sent[1].value = <<>>
       /\ ValueAt(gatt_services, heap, lastOp.handle) = lastOp.before

\* The response of a long read at the handle and offset of lastOp, made now.
ReadBack ==
    on_attr_read(gatt_services, heap, write_requests, server_id, lastOp.addr,
                 lastOp.trans_id, lastOp.offset, TRUE, lastOp.handle)

\* C10: on a handle that passes the permission check, a non-prepared write
\* of length bytes at an offset with 0 <= offset and offset + length within
\* the current value (an absent value being empty) ends with SUCCESS; a long
\* read at the same offset then returns the bytes written followed by the
\* old bytes after offset + length, and the bytes before offset are the old ones.
C10_WriteThenRead ==
    /\ lastOp.op \in WriteCallbacks /\ ~lastOp.is_prep /\ Permitted
    /\ 0 <= lastOp.offset
    /\ lastOp.offset + lastOp.length <= Len(lastOp.before)
    /\ Len(lastOp.value) = lastOp.length
    => /\ ~lastOp.raised
       /\ lastOp.status = SUCCESS
       /\ ~ReadBack.raised
       /\ ReadBack.sent[1].status = SUCCESS
       /\ ReadBack.sent[1].value =
              lastOp.value \o SubSeq(lastOp.before, lastOp.offset + lastOp.length + 1,
                                     Len(lastOp.before))
       /\ SubSeq(ValueAt(gatt_services, heap, lastOp.handle), 1, lastOp.offset)
              = SubSeq(lastOp.before, 1, lastOp.offset)

\* Offsets at which generic_read is tried in a reachable store.
ReadProbes == {-1, 0, 1, LongLen, LongLen + 1}

\* C11: generic_read(offset, handle) returns INVALID_OFFSET and an empty
\* value when offset < 0 or offset > len(value), and otherwise SUCCESS and
\* value[offset:] (empty at offset = len(value)); a handle the store does
\* not carry, and an attribute without a value, read as the empty value.
C11_GenericRead ==
    \A handle \in AllHandles, offset \in ReadProbes :
        LET r == generic_read(gatt_services, heap, offset, handle)
            value == ValueAt(gatt_services, heap, handle)
        IN  /\ ~r.raised
            /\ IF offset < 0 \/ offset > Len(value)
               THEN r.status = INVALID_OFFSET /\ r.value = <<>>
               ELSE r.status = SUCCESS
                    /\ r.value = SubSeq(value, offset + 1, Len(value))

\* A step in which a read callback runs.
ReadStep == lastOp = Idle /\ lastOp'.op \in ReadCallbacks

\* C12: a read request changes no attribute value and leaves the
\* prepared-write queue as it is, so the same request made again right
\* after it gets the same response (status, offset, value).
C12_ReadChangesNothing ==
    [][ReadStep =>
        /\ heap' = heap
        /\ gatt_services' = gatt_services
        /\ write_requests' = write_requests
        /\ on_attr_read(gatt_services', heap', write_requests', server_id',
                        lastOp'.addr, lastOp'.trans_id, lastOp'.offset,
                        lastOp'.is_long, lastOp'.handle).sent = sent']_vars

\* A read has just returned bytes of a value while prepared writes are queued.
C12_Witness ==
    /\ lastOp.op \in ReadCallbacks
    /\ lastOp.status = SUCCESS
    /\ Len(sent) = 1
    /\ sent[1].value /= <<>>
    /\ write_requests /= <<>>

\* No service, characteristic or descriptor in the store carries handle.
NoNodeCarries(handle) ==
    gatt_services = <<>> \/ \A i \in NodeIds : Fixture[i].instance_id /= handle

\* A step in which a read or a write callback runs.
RequestStep == lastOp = Idle /\ lastOp'.op \in ReadCallbacks \cup WriteCallbacks

\* C13: for a handle no node of the store carries, get_attribute_from_handle
\* finds nothing and get_uuid_from_handle returns ''; a read or a write
\* (prepared or not) on it ends with NOT_FOUND, every response it sends
\* (one for a read, one for a write that needs a response) carries NOT_FOUND
\* and an empty value, and no attribute value and no queue entry changes.
C13_AbsentHandleNotFound ==
    [][RequestStep /\ NoNodeCarries(lastOp'.handle) =>
        /\ get_attribute_from_handle(gatt_services, lastOp'.handle) = NoAttribute
        /\ get_uuid_from_handle(gatt_services, lastOp'.handle) = ""
        /\ ~lastOp'.raised
        /\ lastOp'.status = NOT_FOUND
        /\ Len(sent') = IF lastOp'.op \in ReadCallbacks \/ lastOp'.need_rsp THEN 1 ELSE 0
        /\ \A i \in 1..Len(sent') :
              sent'[i].status = NOT_FOUND /\ sent'[i].value = <<>>
        /\ heap' = heap
        /\ gatt_services' = gatt_services
        /\ write_requests' = write_requests]_vars

\* A prepared write on a handle the fixture does not define has just been
\* refused while the store holds a service and the queue an entry.
C13_Witness ==
    /\ lastOp.op \in WriteCallbacks
    /\ lastOp.is_prep
    /\ lastOp.handle = Len(Fixture)
    /\ gatt_services /= <<>>
    /\ lastOp.status = NOT_FOUND
    /\ Len(sent) = 1
    /\ write_requests /= <<>>

\* The UUIDs check_permissions is tried on: those of the tree, the empty
\* string, None and a UUID the fixture does not use.
ProbeUuids == {Fixture[i].uuid : i \in NodeIds} \cup {"", None, "FFFF"}

\* The status the permission table is documented to give a UUID.
ExpectedStatus(uuid) ==
    IF uuid = UNAUTHORIZED_CHAR_UUID THEN INSUF_AUTHORIZATION
    ELSE IF uuid \in {INVALID_FOR_LE_UUID, INVALID_FOR_BR_EDR_UUID} THEN INTERNAL_ERROR
    ELSE IF uuid = NO_READ_CHAR_UUID THEN READ_NOT_PERMIT
    ELSE IF uuid = NO_WRITE_CHAR_UUID THEN WRITE_NOT_PERMIT
    ELSE IF uuid \in {LONG_CHAR_UUID, DESCRIPTOR_UUID, AUTHENTICATION_CHAR_UUID,
                      SHORT_CHAR_UUID, WRITE_NO_RESPONSE_CHAR_UUID,
                      AUTHENTICATE_SHORT_CHAR_UUID, CCC_DESCRIPTOR_UUID,
                      LONG_CHAR_512_UUID, MITM_SHORT_CHAR_UUID} THEN SUCCESS
    ELSE NOT_FOUND

\* The UUID of the node the request of lastOp resolves to ('' if none).
RequestUuid ==
    IF NoNodeCarries(lastOp.handle) THEN ""
    ELSE Fixture[Least({i \in NodeIds : Fixture[i].instance_id = lastOp.handle})].uuid

C15_ShortReadFromStart ==
    /\ lastOp.op \in ReadCallbacks /\ ~lastOp.is_long /\ Permitted
    => /\ ~lastOp.raised
       /\ lastOp.status = SUCCESS
       /\ Len(sent) = 1
       /\ sent[1].status = SUCCESS
       /\ sent[1].offset = 0
       /\ sent[1].value = ValueAt(gatt_services, heap, lastOp.handle)

\* C16: once the store holds the fixture, every read request on handle 13,
\* the NO_READ_CHAR_UUID characteristic, is answered with READ_NOT_PERMIT
\* and an empty value, for every offset and is_long and in every state.
C16_NoReadCharacteristic ==
    /\ lastOp.op \in ReadCallbacks /\ lastOp.handle = 13 /\ gatt_services /= <<>>
    => /\ RequestUuid = NO_READ_CHAR_UUID
       /\ ~lastOp.raised
       /\ lastOp.status = READ_NOT_PERMIT
       /\ Len(sent) = 1
       /\ sent[1].status = READ_NOT_PERMIT
       /\ sent[1].value = <<>>
       /\ sent[1].offset = lastOp.offset

\* A long read of handle 13 at an offset inside its value has just been
\* refused, after a write changed the list the attribute holds.
C16_Witness ==
    /\ lastOp.op \in ReadCallbacks
    /\ lastOp.handle = 13
    /\ lastOp.is_long
    /\ lastOp.offset = 1
    /\ gatt_services /= <<>>
    /\ Len(sent) = 1
    /\ heap /= InitialHeap

\* C17: no two distinct nodes (service, characteristic, descriptor) of the
\* tree __define_services builds, and so of a store that holds it, carry
\* the same instance_id.
C17_HandlesUnique ==
    gatt_services /= <<>> =>
        \A i, j \in NodeIds :
            i /= j => Fixture[i].instance_id /= Fixture[j].instance_id

\* The nodes of the tree with the UUID, in the order service, then
\* characteristics each followed by its descriptors.
NodesOf(uuid) == {n \in NodeIds : Fixture[n].uuid = uuid}

\* The store with the value at one position replaced and nothing else.
OnlyReplaced(s0, i0, ref) ==
    [s \in 1..Len(gatt_services) |->
        [i \in NodeIds |-> IF s = s0 /\ i = i0 THEN ref ELSE gatt_services[s][i]]]

\* UUIDs and values update_attribute_value is tried with in a reachable
\* store: a UUID two nodes share, one a single node has, one no node has.
UpdateProbes ==
    {CCC_DESCRIPTOR_UUID, DATABASE_HASH_UUID, LONG_CHAR_UUID, "FFFF"}
        \X {INDICATION_VALUE, SHORT_TEST_VALUE}

\* C18: update_attribute_value(uuid, v) gives v to exactly one attribute,
\* the first in depth-first order whose UUID is uuid (in the first service
\* that has one), and leaves every other attribute's value as it is; with
\* no such attribute the store is left unchanged.
C18_UpdateFirstMatchOnly ==
    \A probe \in UpdateProbes :
        update_attribute_value(gatt_services, probe[1], probe[2]) =
            IF gatt_services = <<>> \/ NodesOf(probe[1]) = {}
            THEN gatt_services
            ELSE OnlyReplaced(1, Least(NodesOf(probe[1])), probe[2])

\* __set_pts_attributes_value has run on a store of two services: of the
\* two descriptors with the CCC UUID in the first service only the first
\* has a value, and the second service has none.
C18_Witness ==
    /\ Len(gatt_services) = 2
    /\ \E i, j \in NodeIds :
          /\ i < j
          /\ Fixture[i].uuid = CCC_DESCRIPTOR_UUID
          /\ Fixture[j].uuid = CCC_DESCRIPTOR_UUID
          /\ gatt_services[1][i] = INDICATION_VALUE
          /\ gatt_services[1][j] = None
          /\ gatt_services[2][i] = None

\* An entry with the peer address and the trans_id taken out.
Anonymous(q) == [i \in 1..Len(q) |-> [q[i] EXCEPT !.addr = "", !.trans_id = 0]]

\* C19: the queue belongs to the server, not to a peer.  An execute-write
\* from any peer empties the whole queue; a cancel changes no value; a
\* commit changes the values as the walk over all entries in arrival order
\* does, whoever queued them: the addr and trans_id of an entry do not
\* select it.
C19_QueuePerServer ==
    [][/\ CancelStep => /\ write_requests' = <<>>
                        /\ heap' = heap
                        /\ gatt_services' = gatt_services
       /\ CommitStep =>
            /\ write_requests' = <<>>
            /\ heap' = ApplyRequests(gatt_services, heap,
                                     Anonymous(write_requests), Unbound).heap
            /\ gatt_services' = ApplyRequests(gatt_services, heap,
                                              Anonymous(write_requests),
                                              Unbound).services]_vars

\* Peer B has just committed a queue holding an entry of peer A followed
\* by one of its own, and both were applied.
C19_Witness ==
    /\ lastOp.op = "on_execute_write"
    /\ lastOp.exec_write
    /\ lastOp.addr = "B"
    /\ lastOp.peers = <<"A", "B">>
    /\ lastOp.status = SUCCESS
    /\ Len(sent) = 1
    /\ write_requests = <<>>

\* A step in which an execute-write runs.
ExecuteStep == lastOp = Idle /\ lastOp'.op = "on_execute_write"

\* C20: only an execute-write removes queued entries.  In every step that
\* is not an execute-write (a read, a write, an MTU change, a connection
\* event, a service added or removed, a callback returning) the queue
\* before the step is a prefix of the queue after it: its length does not
\* decrease and every entry keeps its position.
C20_OnlyExecuteRemoves ==
    [][~ExecuteStep =>
        /\ Len(write_requests') >= Len(write_requests)
        /\ \A i \in 1..Len(write_requests) :
               write_requests'[i] = write_requests[i]]_vars

\* A prepared write has just been queued behind an earlier entry that a
\* non-prepared write to the same attribute and other events have left
\* in place.
C20_Witness ==
    /\ lastOp.op \in WriteCallbacks
    /\ lastOp.is_prep
    /\ lastOp.status = SUCCESS
    /\ Len(write_requests) = 2
    /\ write_requests[1].handle = 6
    /\ write_requests[1].value = <<1>>
    /\ write_requests[1].addr = "A"
    /\ write_requests[2].addr = "B"
    /\ mtu_value = 23
    /\ heap /= InitialHeap

\* C21: no attribute leaves the store.  A handle that resolves to an
\* attribute resolves to the same attribute, with the same UUID, after
\* every step: on_service_removed, a further on_service_added, a read, a
\* write, an execute-write.  (A step that leaves self.gatt_services as it
\* is resolves every handle as before; the lookups are compared in the
\* steps that change it.)
C21_AttributesStay ==
    [][\/ gatt_services' = gatt_services
       \/ \A handle \in AllHandles :
           get_attribute_from_handle(gatt_services, handle) /= NoAttribute =>
               /\ get_attribute_from_handle(gatt_services', handle)
                      = get_attribute_from_handle(gatt_services, handle)
               /\ get_uuid_from_handle(gatt_services', handle)
                      = get_uuid_from_handle(gatt_services, handle)]_vars

\* on_service_removed has just run on a store of two services and
\* handle 6 still resolves to the LONG_CHAR_UUID characteristic.
C21_Witness ==
    /\ lastOp.op = "on_service_removed"
    /\ lastOp.status = SUCCESS
    /\ Len(gatt_services) = 2
    /\ heap /= InitialHeap
    /\ get_uuid_from_handle(gatt_services, 6) = LONG_CHAR_UUID

\* C22: a write replaces bytes inside the existing value: in every
\* reachable state no value list is longer than it was when the
\* attributes were initialised from it.
C22_ValueNeverGrows ==
    \A o \in Objects : Len(heap[o]) <= Len(InitialHeap[o])

\* C30: a non-prepared write with a negative offset to a permitted handle
\* does not end with SUCCESS and leaves every value as it was.
C30_NegativeOffsetRejected ==
    [][/\ WriteStep
       /\ ~lastOp'.is_prep
       /\ lastOp'.offset < 0
       /\ check_permissions(get_uuid_from_handle(gatt_services, lastOp'.handle)) = SUCCESS
       => /\ lastOp'.status /= SUCCESS
          /\ heap' = heap]_vars

\* A step in which on_service_added runs.
ServiceAddedStep == lastOp = Idle /\ lastOp'.op = "on_service_added"

\* C23: the PTS values are set once.  An on_service_added with a status
\* other than SUCCESS changes neither the store nor the flag.  The first
\* one with SUCCESS gives each attribute named in
\* __set_pts_attributes_value its list and sets the flag; a later one
\* appends a service whose values are unset and leaves every earlier value
\* reference and every list, whatever the peers wrote into it, as it is.
\* The flag is never taken back.
C23_PtsValuesSetOnce ==
    [][/\ pts_set_values => pts_set_values'
       /\ ServiceAddedStep /\ lastOp'.status /= SUCCESS =>
            /\ gatt_services' = gatt_services
            /\ heap' = heap
            /\ pts_set_values' = pts_set_values
       /\ ServiceAddedStep /\ lastOp'.status = SUCCESS =>
            /\ pts_set_values'
            /\ heap' = heap
            /\ Len(gatt_services') = Len(gatt_services) + 1
            /\ IF pts_set_values
               THEN gatt_services' = Append(gatt_services, create_gatt_service)
               ELSE /\ gatt_services = <<>>
                    /\ \A k \in 1..Len(PtsValues) :
                           gatt_services'[1][Least(NodesOf(PtsValues[k][1]))]
                               = PtsValues[k][2]]_vars

\* A second service has just been added after a peer changed a value.
C23_Witness ==
    /\ lastOp.op = "on_service_added"
    /\ lastOp.status = SUCCESS
    /\ Len(gatt_services) = 2
    /\ heap /= InitialHeap
    /\ pts_set_values

C25_WriteChangesOnlyTarget ==
    [][WriteStep /\ ~lastOp'.is_prep /\ lastOp'.status = SUCCESS =>
        \A handle \in AllHandles \ {lastOp'.handle} :
            ValueAt(gatt_services', heap', handle)
                = ValueAt(gatt_services, heap, handle)]_vars

\* C26: the value of an attribute whose UUID check_permissions refuses
\* (handle 9, UNAUTHORIZED_CHAR_UUID; handle 14, NO_WRITE_CHAR_UUID) is in
\* every reachable state the value it was initialised with.
C26_DeniedValueNeverChanges ==
    gatt_services /= <<>> =>
        \A handle \in {9, 14} :
            /\ check_permissions(get_uuid_from_handle(gatt_services, handle)) /= SUCCESS
            /\ ValueAt(gatt_services, heap, handle) = InitialHeap[LONG_TEST_VALUE]

\* C27: after every step, each entry of the prepared-write queue names a
\* handle that resolves to an attribute of the store whose UUID
\* check_permissions accepts; a prepared write to a handle that is unknown
\* or refused leaves the queue as it is.
C27_QueuedHandlesPermitted ==
    [][/\ \A k \in 1..Len(write_requests') :
            /\ get_attribute_from_handle(gatt_services', write_requests'[k].handle)
                   /= NoAttribute
            /\ check_permissions(get_uuid_from_handle(gatt_services',
                                                      write_requests'[k].handle))
                   = SUCCESS
       /\ /\ WriteStep /\ lastOp'.is_prep
          /\ check_permissions(get_uuid_from_handle(gatt_services, lastOp'.handle))
                 /= SUCCESS
          => write_requests' = write_requests]_vars

\* A commit has just applied a queue of two entries, each to an
\* attribute of the store.
C27_Witness ==
    /\ lastOp.op = "on_execute_write"
    /\ lastOp.exec_write
    /\ lastOp.queued = 2
    /\ lastOp.status = SUCCESS
    /\ ~lastOp.raised
    /\ heap /= InitialHeap

\* C28: the queue is empty after every execute-write, a cancel or a
\* commit, whether the commit applied every entry, stopped at a failing
\* one or ended in an exception; what a commit did not apply is gone.
C28_ExecuteEmptiesQueue ==
    [][ExecuteStep => write_requests' = <<>>]_vars

\* A commit of two entries has just stopped at the first, whose offset is
\* beyond the value: nothing was applied and nothing is left queued.
C28_Witness ==
    /\ lastOp.op = "on_execute_write"
    /\ lastOp.exec_write
    /\ lastOp.queued = 2
    /\ lastOp.status = INVALID_OFFSET
    /\ Len(sent) = 1
    /\ sent[1].status = INVALID_OFFSET
    /\ heap = InitialHeap
    /\ write_requests = <<>>

\* C29: a prepared write is queued without a look at the value.  With
\* need_rsp set and a permitted handle it sends exactly one response:
\* SUCCESS, the request's offset and the request's value, also when the
\* offset or offset + length lies beyond the end of the current value; no
\* response to a prepared write carries INVALID_OFFSET or INVALID_ATTRLEN.
C29_PreparedWriteNotValidated ==
    [][WriteStep /\ lastOp'.is_prep =>
        /\ \A k \in 1..Len(sent') :
               sent'[k].status \notin {INVALID_OFFSET, INVALID_ATTRLEN}
        /\ /\ lastOp'.need_rsp
           /\ check_permissions(get_uuid_from_handle(gatt_services, lastOp'.handle))
                  = SUCCESS
           => /\ lastOp'.status = SUCCESS
              /\ sent' = <<SendResponse(server_id, lastOp'.addr, lastOp'.trans_id,
                                        SUCCESS, lastOp'.offset, lastOp'.value)>>]_vars

\* A prepared write whose offset lies beyond the end of the value of
\* handle 6 has just been queued behind another and answered SUCCESS with
\* its own offset and value.
C29_Witness ==
    /\ lastOp.op \in WriteCallbacks
    /\ lastOp.is_prep
    /\ lastOp.handle = 6
    /\ lastOp.offset = LongLen + 1
    /\ lastOp.offset > Len(ValueAt(gatt_services, heap, 6))
    /\ lastOp.status = SUCCESS
    /\ sent = <<SendResponse(server_id, lastOp.addr, lastOp.trans_id, SUCCESS,
                             LongLen + 1, lastOp.value)>>
    /\ Len(write_requests) = 2

=============================================================================
